---- MODULE Spec2Model ----
(***************************************************************************)
(* Model of lib/cisco.py, the Cisco IOS generator: the term renderers      *)
(* (TermStandard, ObjectGroupTerm, Term), the ObjectGroup aggregator, the  *)
(* filter compiler Cisco._TranslatePolicy and the assembler Cisco.__str__. *)
(*                                                                         *)
(* Text is modelled as a sequence of lines and a line as a sequence of     *)
(* tokens (the words between blanks), so the whitespace collapsing of      *)
(* _TermletToStr is the dropping of empty tokens.                          *)
(***************************************************************************)
EXTENDS Integers, Sequences, FiniteSets, TLC

VARIABLES
    pol,             \* pol.filters: the input policy, <<[header, terms]>>
    pc,              \* "translate", "translated", "failed"
    hidx,            \* index of the next header _TranslatePolicy visits
    cisco_policies,  \* self.cisco_policies
    error,           \* the exception raised, "none" when none
    logs,            \* the messages given to logging.info and logging.warn
    target,          \* the text the last Cisco.__str__ returned
    term_strs,       \* str(term) of every rendered term in the last __str__
    renders          \* number of Cisco.__str__ calls so far

vars == <<pol, pc, hidx, cisco_policies, error, logs, target, term_strs,
          renders>>

(***************************************************************************)
(* Bounds of the model.                                                    *)
(***************************************************************************)
MaxRenders == 2      \* calls of Cisco.__str__ on one compiled policy
MaxTerms == 2        \* terms of a filter
MaxPort == 3         \* ports are 1..MaxPort in the port-split specification
MaxPortList == 2     \* port pairs a term declares in that specification

(***************************************************************************)
(* Generic helpers.                                                        *)
(***************************************************************************)
RECURSIVE FlattenTuple(_)
FlattenTuple(ss) ==
    IF ss = <<>> THEN <<>> ELSE Head(ss) \o FlattenTuple(Tail(ss))

Flatten(ss) == FlattenTuple(ss \o <<>>)

Range(s) == { s[i] : i \in 1..Len(s) }

\* Python's '\n'.join(ret_str) where every element is one line: the string
\* is the sequence of its lines, and '' is the string with no line at all
\* (joining [] and joining [''] both give '').
Join(ret_str) == IF ret_str = << <<>> >> THEN <<>> ELSE ret_str

\* the truth value of a Python string
NonEmptyStr(s) == s # <<>>

(***************************************************************************)
(* Filter names.  A name is a sequence of parts, so that 'ipv6-%s' % name  *)
(* is the name with one part put in front.  NumericNames are the names of  *)
(* the model for which str.isdigit() holds, with their int() value.        *)
(***************************************************************************)
NumericNames ==
    ("0" :> 0) @@ ("1" :> 1) @@ ("50" :> 50) @@ ("99" :> 99) @@ ("100" :> 100)
    @@ ("150" :> 150) @@ ("1299" :> 1299) @@ ("1300" :> 1300)
    @@ ("1999" :> 1999) @@ ("2000" :> 2000)

isdigit(name) == Len(name) = 1 /\ name[1] \in DOMAIN NumericNames

int(name) == NumericNames[name[1]]

\* the name with the family put behind it
Ipv6Suffix(name) == name \o <<"-ipv6">>

\* 'ipv6-%s' % filter_name
Ipv6Prefix(name) == <<"ipv6-">> \o name

(***************************************************************************)
(* Addresses (nacaddr.IPv4 / nacaddr.IPv6).  An address is a prefix over a *)
(* two-host space: base 0 with 2 hosts is the network, base 0 or 1 with 1  *)
(* host is a single host; numhosts 0 stands for 0.0.0.0/0, which no        *)
(* policy of the model declares.  token is parent_token.                   *)
(***************************************************************************)
Addr(af, base, numhosts, token) ==
    [af |-> ToString(af), base |-> base, numhosts |-> numhosts, token |-> token]

Hosts(a) == a.base .. (a.base + a.numhosts - 1)

\* str(addr.ip)
IpStr(a) == IF a.af = "4"
            THEN (IF a.base = 0 THEN "10.0.0.0" ELSE "10.0.0.1")
            ELSE (IF a.base = 0 THEN "2001:db8::" ELSE "2001:db8::1")

\* str(addr.hostmask) of an IPv4 prefix
HostMask(a) == IF a.numhosts > 1 THEN "0.0.0.1" ELSE "0.0.0.0"

\* str(addr.netmask) of an IPv4 prefix
NetMask(a) == IF a.numhosts > 1 THEN "255.255.255.254" ELSE "255.255.255.255"

\* addr.with_prefixlen, which is also str(addr)
WithPrefixLen(a) ==
    IF a.af = "4"
    THEN (IF a.numhosts = 0 THEN "0.0.0.0/0"
          ELSE IF a.numhosts > 1 THEN "10.0.0.0/31"
          ELSE IF a.base = 0 THEN "10.0.0.0/32" ELSE "10.0.0.1/32")
    ELSE (IF a.numhosts > 1 THEN "2001:db8::/127"
          ELSE IF a.base = 0 THEN "2001:db8::/128" ELSE "2001:db8::1/128")

\* policy.Term.GetAddressOfVersion: the addresses of one family, in order
GetAddressOfVersion(addrs, af) == SelectSeq(addrs, LAMBDA a : a.af = af)

\* nacaddr.RemoveAddressFromList: an address inside the exclusion goes, an
\* address that contains it is replaced by what is left of it
RemoveAddressFromList(superset, exclude) ==
    Flatten([i \in 1..Len(superset) |->
        LET a == superset[i] IN
        IF a.af = exclude.af /\ Hosts(a) \subseteq Hosts(exclude) THEN <<>>
        ELSE IF a.af = exclude.af /\ Hosts(exclude) \subseteq Hosts(a)
             THEN LET rest == CHOOSE h \in Hosts(a) : h \notin Hosts(exclude)
                  IN  << Addr(a.af, rest, 1, a.token) >>
        ELSE << a >>])

\* nacaddr.ExcludeAddrs: every exclusion removed in turn
RECURSIVE ExcludeAddrs(_, _)
ExcludeAddrs(addrs, excludes) ==
    IF excludes = <<>> THEN addrs
    ELSE ExcludeAddrs(RemoveAddressFromList(addrs, Head(excludes)), Tail(excludes))

(***************************************************************************)
(* Terms of the input policy (policy.Term), read by the renderers.         *)
(* expiration 0 is None, owner "" is None, counter "" is None; a verbatim  *)
(* entry is <<platform, text>>; a port is <<low, high>>.                   *)
(***************************************************************************)
BaseTerm ==
    [name |-> "t1", action |-> <<"accept">>, protocol |-> <<>>,
     icmp_type |-> <<>>, address |-> <<>>,
     source_address |-> <<>>, source_address_exclude |-> <<>>,
     destination_address |-> <<>>, destination_address_exclude |-> <<>>,
     source_port |-> <<>>, destination_port |-> <<>>, option |-> <<>>,
     verbatim |-> <<>>, owner |-> "", platform |-> <<>>,
     platform_exclude |-> <<>>, expiration |-> 0, logging |-> FALSE,
     comment |-> <<>>, counter |-> ""]

_PLATFORM == "cisco"

_ACTION_TABLE ==
    ("accept" :> <<"permit">>) @@ ("deny" :> <<"deny">>)
    @@ ("reject" :> <<"deny">>) @@ ("next" :> <<"!", "next">>)
    @@ ("reject-with-tcp-rst" :> <<"deny">>)

\* aclgenerator.Term.PROTO_MAP, the two entries cisco.py reads; a term's
\* protocols are names, so the numbers only ever compare unequal to them
PROTO_MAP == [tcp |-> "6", udp |-> "17"]

\* aclgenerator.Term.ICMP_TYPE: symbolic name -> code, per family
ICMP_TYPE ==
    (4 :> (("echo-reply" :> 0) @@ ("unreachable" :> 3) @@ ("echo-request" :> 8)))
    @@ (6 :> (("unreachable" :> 1) @@ ("echo-request" :> 128)
              @@ ("echo-reply" :> 129)))

\* aclgenerator.Term.NormalizeIcmpTypes: every declared name to its code;
\* a code is <<n>>, the placeholder '' of Term.__str__ is <<>>
NormalizeIcmpTypes(icmp_types, af) ==
    [i \in 1..Len(icmp_types) |-> << ICMP_TYPE[af][icmp_types[i]] >>]

_IOS_PORTS_TCP ==
    (179 :> "bgp") @@ (19 :> "chargen") @@ (514 :> "cmd") @@ (13 :> "daytime")
    @@ (9 :> "discard") @@ (53 :> "domain") @@ (7 :> "echo") @@ (512 :> "exec")
    @@ (79 :> "finger") @@ (21 :> "ftp") @@ (20 :> "ftp-data")
    @@ (70 :> "gopher") @@ (101 :> "hostname") @@ (113 :> "ident")
    @@ (194 :> "irc") @@ (543 :> "klogin") @@ (544 :> "kshell")
    @@ (513 :> "login") @@ (515 :> "lpd") @@ (119 :> "nntp")
    @@ (496 :> "pim-auto-rp") @@ (109 :> "pop2") @@ (110 :> "pop3")
    @@ (25 :> "smtp") @@ (111 :> "sunrpc") @@ (49 :> "tacacs")
    @@ (517 :> "talk") @@ (23 :> "telnet") @@ (37 :> "time") @@ (540 :> "uucp")
    @@ (43 :> "whois") @@ (80 :> "www")

_IOS_PORTS_UDP ==
    (512 :> "biff") @@ (68 :> "bootpc") @@ (67 :> "bootps") @@ (9 :> "discard")
    @@ (195 :> "dnsix") @@ (53 :> "domain") @@ (7 :> "echo") @@ (500 :> "isakmp")
    @@ (434 :> "mobile-ip") @@ (42 :> "nameserver") @@ (138 :> "netbios-dgm")
    @@ (137 :> "netbios-ns") @@ (139 :> "netbios-ss")
    @@ (4500 :> "non500-isakmp") @@ (123 :> "ntp") @@ (496 :> "pim-auto-rp")
    @@ (520 :> "rip") @@ (161 :> "snmp") @@ (162 :> "snmptrap")
    @@ (111 :> "sunrpc") @@ (514 :> "syslog") @@ (49 :> "tacacs")
    @@ (517 :> "talk") @@ (69 :> "tftp") @@ (37 :> "time") @@ (513 :> "who")
    @@ (177 :> "xdmcp")

_CISCO_TYPES_ICMP ==
    (6 :> "alternate-address") @@ (31 :> "conversion-error") @@ (8 :> "echo")
    @@ (0 :> "echo-reply") @@ (16 :> "information-reply")
    @@ (15 :> "information-request") @@ (18 :> "mask-reply")
    @@ (17 :> "mask-request") @@ (32 :> "mobile-redirect")
    @@ (12 :> "parameter-problem") @@ (5 :> "redirect")
    @@ (9 :> "router-advertisement") @@ (10 :> "router-solicitation")
    @@ (4 :> "source-quench") @@ (11 :> "time-exceeded")
    @@ (14 :> "timestamp-reply") @@ (13 :> "timestamp-request")
    @@ (30 :> "traceroute") @@ (3 :> "unreachable")

_CISCO_TYPES_ICMPv6 ==
    (1 :> "unreachable") @@ (2 :> "packet-too-big") @@ (3 :> "time-exceeded")
    @@ (4 :> "parameter-problem") @@ (128 :> "echo-request")
    @@ (129 :> "echo-reply")

\* "if portNumber in table: return table[portNumber]", else the number
\* itself, as the text '%s' prints
Lookup(table, portNumber) ==
    IF portNumber \in DOMAIN table THEN table[portNumber]
    ELSE ToString(portNumber)

\* Term._TermPortToProtocol
_TermPortToProtocol(af, portNumber, proto) ==
    IF proto = "tcp" THEN Lookup(_IOS_PORTS_TCP, portNumber)
    ELSE IF proto = "udp" THEN Lookup(_IOS_PORTS_UDP, portNumber)
    ELSE IF proto = "icmp" /\ af = 4 THEN Lookup(_CISCO_TYPES_ICMP, portNumber)
    ELSE IF proto = "icmp" /\ af = 6 THEN Lookup(_CISCO_TYPES_ICMPv6, portNumber)
    ELSE ToString(portNumber)

\* the string 'any' that stands for an undeclared address list
AnyAddr == [af |-> "str", base |-> 0, numhosts |-> 0, token |-> "any"]

\* Term._AddressToStr: a string is left as it is
_AddressToStr(addr) ==
    IF addr.af = "str" THEN <<addr.token>>
    ELSE IF addr.af = "4"
         THEN (IF addr.numhosts > 1 THEN <<IpStr(addr), HostMask(addr)>>
               ELSE <<"host", IpStr(addr)>>)
    ELSE (IF addr.numhosts > 1 THEN <<WithPrefixLen(addr)>>
          ELSE <<"host", IpStr(addr)>>)

\* the port clause of Term._TermletToStr; () is <<>>
PortClause(port, names) ==
    IF port[1] # port[2] THEN <<"range">> \o names ELSE <<"eq", names[1]>>

PortToStr(af, port, proto) ==
    IF port = <<>> THEN <<>>
    ELSE PortClause(port, [i \in 1..2 |-> _TermPortToProtocol(af, port[i], proto)])

\* list.remove(x): the first occurrence goes
RECURSIVE ListRemove(_, _)
ListRemove(l, x) ==
    IF l = <<>> THEN <<>>
    ELSE IF Head(l) = x THEN Tail(l)
    ELSE <<Head(l)>> \o ListRemove(Tail(l), x)

\* Term._TermletToStr: the one line of a (proto, saddr, sport, daddr, dport,
\* icmp_type) combination, as its tokens
SaneOptions(proto, option) ==
    IF (proto = PROTO_MAP.udp \/ proto = "udp") /\ "established" \in Range(option)
    THEN ListRemove(option, "established") ELSE option

IcmpToStr(af, icmp_type) ==
    IF icmp_type = <<>> THEN <<>>
    ELSE << _TermPortToProtocol(af, icmp_type[1], "icmp") >>

_TermletToStr(af, action, proto, saddr, sport, daddr, dport, icmp_type, option) ==
    LET ends == [i \in 1..2 |->
                    _AddressToStr(IF i = 1 THEN saddr ELSE daddr)
                    \o PortToStr(af, IF i = 1 THEN sport ELSE dport, proto)]
    IN  << action \o <<proto>> \o ends[1] \o ends[2]
           \o IcmpToStr(af, icmp_type) \o SaneOptions(proto, option) >>

\* the split taken for the pairs that span three ports
FixPortsTwoApart(port_list) ==
    Flatten([i \in 1..Len(port_list) |->
        LET low_port == port_list[i][1]
            high_port == port_list[i][2]
        IN  IF low_port = high_port - 2
            THEN << <<low_port, low_port>>, <<high_port, high_port>> >>
            ELSE << <<low_port, high_port>> >>])

\* Term._FixConsecutivePorts
_FixConsecutivePorts(port_list) ==
    Flatten([i \in 1..Len(port_list) |->
        LET low_port == port_list[i][1]
            high_port == port_list[i][2]
        IN  IF low_port = high_port - 1
            THEN << <<low_port, low_port>>, <<high_port, high_port>> >>
            ELSE << <<low_port, high_port>> >>])

\* the platform / platform_exclude test that opens every renderer's __str__
PlatformSkips(t) ==
    \/ t.platform # <<>> /\ _PLATFORM \notin Range(t.platform)
    \/ t.platform_exclude # <<>> /\ _PLATFORM \in Range(t.platform_exclude)

\* the verbatim loop of the three renderers: the return sits in the loop
\* body, so the loop ends with the first entry of the list
VerbatimLines(t) ==
    LET next_verbatim == t.verbatim[1]
    IN  IF next_verbatim[1] = _PLATFORM THEN << <<next_verbatim[2]>> >> ELSE <<>>

(***************************************************************************)
(* Term.__str__ (extended and inet6).  self is the Term object: the term   *)
(* it wraps (by reference), af and options.  The result is the string      *)
(* returned together with what the call leaves in term.comment and in      *)
(* self.options, and the exception it raises ("none" when it returns).     *)
(***************************************************************************)
OwnerComment(t) == <<"Owner:", t.owner>>

\* lines 400-403: the owner is appended to term.comment, twice
CommentWithOwner(t) ==
    IF t.owner # ""
    THEN Append(Append(t.comment, OwnerComment(t)), OwnerComment(t))
    ELSE t.comment

\* lines 399-406: the remark lines, after the '' that opens ret_str
TermRemarks(name, comment) ==
    << <<>>, <<"remark", name>> >>
    \o [i \in 1..Len(comment) |-> <<"remark">> \o comment[i]]

\* lines 416-431
TermProtocol(t, af) ==
    IF t.protocol = <<>> THEN (IF af = 6 THEN <<"ipv6">> ELSE <<"ip">>)
    ELSE IF t.protocol = <<"hop-by-hop">> THEN <<"hbh">>
    ELSE t.protocol

\* lines 432-467, for one direction: the declared list of the family less
\* the exclusions of the family, 'any' for an undeclared list; an empty
\* result makes __str__ return ''
ExcludeIfAny(addrs, exclude) ==
    IF exclude # <<>> THEN ExcludeAddrs(addrs, exclude) ELSE addrs

\* the resolution with 'any' standing in for a list that resolves to empty
TermAddressAnyWhenEmpty(declared, exclude, af) ==
    IF declared # <<>>
       /\ ExcludeIfAny(GetAddressOfVersion(declared, ToString(af)),
                       GetAddressOfVersion(exclude, ToString(af))) # <<>>
    THEN ExcludeIfAny(GetAddressOfVersion(declared, ToString(af)),
                      GetAddressOfVersion(exclude, ToString(af)))
    ELSE <<AnyAddr>>

TermAddress(declared, exclude, af) ==
    IF declared # <<>>
    THEN ExcludeIfAny(GetAddressOfVersion(declared, ToString(af)),
                      GetAddressOfVersion(exclude, ToString(af)))
    ELSE <<AnyAddr>>

\* lines 469-486: self.options after the established and the log test
TermOptions(t, protocol, options) ==
    (IF (PROTO_MAP.tcp \in Range(protocol) \/ "tcp" \in Range(protocol))
        /\ ("tcp-established" \in Range(t.option)
            \/ "established" \in Range(t.option))
     THEN Append(options, "established") ELSE options)
    \o (IF t.logging THEN <<"log">> ELSE <<>>)

\* lines 475-482, for one direction
TermPorts(declared) ==
    IF declared # <<>> THEN _FixConsecutivePorts(declared) ELSE << <<>> >>

\* lines 488-492
TermIcmpTypes(t, af) ==
    IF t.icmp_type # <<>> THEN NormalizeIcmpTypes(t.icmp_type, af)
    ELSE << <<>> >>

\* the six loops with the protocol loop inside the loop over ICMP types
TermRulesProtocolInnermost(af, action, protocol, source_address, destination_address, source_port, destination_port, icmp_types, options) ==
    Flatten([a \in 1..Len(source_address) |->
     Flatten([b \in 1..Len(destination_address) |->
      Flatten([c \in 1..Len(source_port) |->
       Flatten([d \in 1..Len(destination_port) |->
        Flatten([f \in 1..Len(icmp_types) |->
         Flatten([e \in 1..Len(protocol) |->
            _TermletToStr(af, action, protocol[e], source_address[a],
                          source_port[c], destination_address[b],
                          destination_port[d], icmp_types[f],
                          options)])])])])])])

\* lines 494-508: the six nested loops
TermRules(af, action, protocol, source_address, destination_address, source_port, destination_port, icmp_types, options) ==
    Flatten([a \in 1..Len(source_address) |->
     Flatten([b \in 1..Len(destination_address) |->
      Flatten([c \in 1..Len(source_port) |->
       Flatten([d \in 1..Len(destination_port) |->
        Flatten([e \in 1..Len(protocol) |->
         Flatten([f \in 1..Len(icmp_types) |->
            _TermletToStr(af, action, protocol[e], source_address[a],
                          source_port[c], destination_address[b],
                          destination_port[d], icmp_types[f],
                          options)])])])])])])

Returned(str, comment, options, err) ==
    [str |-> str, comment |-> comment, options |-> options, err |-> err]

\* lines 408-510, once the comment is extended and the addresses resolved
TermStrBody(t, af, options, comment, source_address, destination_address, new_options) ==
    IF t.verbatim # <<>>
        THEN Returned(Join(TermRemarks(t.name, comment) \o VerbatimLines(t)),
                      comment, options, "none")
    ELSE IF source_address = <<>> \/ destination_address = <<>>
        THEN Returned(<<>>, comment, options, "none")
    ELSE Returned(Join(TermRemarks(t.name, comment)
                       \o TermRules(af, _ACTION_TABLE[t.action[1]],
                                    TermProtocol(t, af), source_address,
                                    destination_address,
                                    TermPorts(t.source_port),
                                    TermPorts(t.destination_port),
                                    TermIcmpTypes(t, af), new_options)),
                  comment, new_options, "none")

TermStr(t, af, options) ==
    IF PlatformSkips(t) THEN Returned(<<>>, t.comment, options, "none")
    ELSE IF af = 4 /\ "icmpv6" \in Range(t.protocol)
        THEN Returned(<<>>, t.comment, options, "none")
    ELSE TermStrBody(t, af, options, CommentWithOwner(t),
                     TermAddress(t.source_address, t.source_address_exclude, af),
                     TermAddress(t.destination_address,
                                 t.destination_address_exclude, af),
                     TermOptions(t, TermProtocol(t, af), options))

(***************************************************************************)
(* TermStandard.                                                           *)
(***************************************************************************)
\* aclgenerator.WrapWords(textlist, 70): the comments of the model are
\* shorter than the width, so every comment is one line of the result
WrapWords(textlist) == textlist

\* the checks of TermStandard.__init__ without the one on the counter
TermStandardInitIgnoresCounter(t) ==
    IF t.protocol # <<>> THEN "StandardAclTermError"
    ELSE IF t.icmp_type # <<>> THEN "StandardAclTermError"
    ELSE IF \/ t.source_address # <<>>
            \/ t.source_address_exclude # <<>>
            \/ t.destination_address # <<>>
            \/ t.destination_address_exclude # <<>>
         THEN "StandardAclTermError"
    ELSE IF t.option # <<>> THEN "StandardAclTermError"
    ELSE IF t.source_port # <<>> \/ t.destination_port # <<>>
         THEN "StandardAclTermError"
    ELSE "none"

\* TermStandard.__init__: the exception it raises, "none" when it returns
TermStandardInit(t) ==
    IF t.protocol # <<>> THEN "StandardAclTermError"
    ELSE IF t.icmp_type # <<>> THEN "StandardAclTermError"
    ELSE IF \/ t.source_address # <<>>
            \/ t.source_address_exclude # <<>>
            \/ t.destination_address # <<>>
            \/ t.destination_address_exclude # <<>>
         THEN "StandardAclTermError"
    ELSE IF t.option # <<>> THEN "StandardAclTermError"
    ELSE IF t.source_port # <<>> \/ t.destination_port # <<>>
         THEN "StandardAclTermError"
    ELSE IF t.counter # "" THEN "StandardAclTermError"
    ELSE "none"

\* self.logstring as TermStandard.__init__ leaves it
LogString(t) == IF t.logging THEN <<"log">> ELSE <<>>

\* TermStandard.__str__
TermStandardStr(t, filter_name, logstring) ==
    LET v4_addresses == SelectSeq(t.address, LAMBDA x : x.af # "6")
        comments == WrapWords(t.comment)
        action == _ACTION_TABLE[t.action[1]]
        prefix == IF isdigit(filter_name) THEN <<"access-list">> \o filter_name
                  ELSE <<>>
        remarks == << prefix \o <<"remark", t.name>> >>
                   \o (IF comments # <<>> /\ comments[1] # <<>>
                       THEN [i \in 1..Len(comments) |->
                                prefix \o <<"remark">> \o comments[i]]
                       ELSE <<>>)
        AddrLine(addr) ==
            IF addr.numhosts = 1
            THEN (IF isdigit(filter_name)
                  THEN prefix \o action \o <<IpStr(addr)>> \o logstring
                  ELSE action \o <<"host", IpStr(addr)>> \o logstring)
            ELSE prefix \o action \o <<IpStr(addr), HostMask(addr)>>
                 \o logstring
        rules == IF v4_addresses # <<>>
                 THEN [i \in 1..Len(v4_addresses) |-> AddrLine(v4_addresses[i])]
                 ELSE << prefix \o action \o <<"any">> \o logstring >>
    IN  IF PlatformSkips(t)
            THEN [str |-> <<>>, comment |-> t.comment, options |-> <<>>,
                  err |-> "none"]
        ELSE IF t.verbatim # <<>>
            THEN [str |-> Join(VerbatimLines(t)), comment |-> t.comment,
                  options |-> <<>>, err |-> "none"]
        ELSE [str |-> Join(remarks \o rules), comment |-> t.comment,
              options |-> <<>>, err |-> "none"]

(***************************************************************************)
(* ObjectGroup and ObjectGroupTerm.                                        *)
(***************************************************************************)
\* nacaddr.IPv4('0.0.0.0/0', token='ANY')
AnyGroup == [af |-> "4", base |-> 0, numhosts |-> 0, token |-> "ANY"]

\* '%s-%s' % (port[0], port[1])
PortKey(port) == <<ToString(port[1]), "-", ToString(port[2])>>

\* ObjectGroupTerm._TermletToStr
OGTermletToStr(action, proto, saddr, sport, daddr, dport) ==
    action \o <<proto>> \o <<"addrgroup", WithPrefixLen(saddr)>>
    \o (IF sport # <<>> THEN <<"portgroup">> \o PortKey(sport) ELSE <<>>)
    \o <<"addrgroup", WithPrefixLen(daddr)>>
    \o (IF dport # <<>> THEN <<"portgroup">> \o PortKey(dport) ELSE <<>>)

\* ObjectGroupTerm.__str__: protocol is bound only when the term declares
\* no protocol, so the loop over it raises for every other term
ObjectGroupTermStr(t) ==
    LET comments == WrapWords(t.comment)
        remarks == << <<>>, <<>>, <<"remark", t.name>> >>
                   \o (IF comments # <<>> /\ comments[1] # <<>>
                       THEN [i \in 1..Len(comments) |-> <<"remark">> \o comments[i]]
                       ELSE <<>>)
        protocol == <<"ip">>
        source_address == IF t.source_address = <<>> THEN <<AnyGroup>>
                          ELSE t.source_address
        destination_address == IF t.destination_address = <<>> THEN <<AnyGroup>>
                               ELSE t.destination_address
        source_port == IF t.source_port # <<>> THEN t.source_port
                       ELSE << <<>> >>
        destination_port == IF t.destination_port # <<>> THEN t.destination_port
                            ELSE << <<>> >>
        action == _ACTION_TABLE[t.action[1]]
        rules ==
            Flatten([a \in 1..Len(source_address) |->
             Flatten([b \in 1..Len(destination_address) |->
              Flatten([c \in 1..Len(source_port) |->
               Flatten([d \in 1..Len(destination_port) |->
                [e \in 1..Len(protocol) |->
                    OGTermletToStr(action, protocol[e], source_address[a],
                                   source_port[c], destination_address[b],
                                   destination_port[d])]])])])])
    IN  IF PlatformSkips(t)
            THEN [str |-> <<>>, comment |-> t.comment, options |-> <<>>,
                  err |-> "none"]
        ELSE IF t.verbatim # <<>>
            THEN [str |-> Join(remarks \o VerbatimLines(t)),
                  comment |-> t.comment, options |-> <<>>, err |-> "none"]
        ELSE IF t.protocol # <<>>
            THEN [str |-> <<>>, comment |-> t.comment, options |-> <<>>,
                  err |-> "UnboundLocalError"]
        ELSE [str |-> Join(remarks \o rules), comment |-> t.comment,
              options |-> <<>>, err |-> "none"]

\* the port blocks of a term without the test on the keys seen so far
ObjectGroupPortsUnchecked(ports, seen) ==
    LET RECURSIVE Loop(_, _)
        Loop(k, acc) ==
            IF k > Len(ports) THEN acc
            ELSE LET port == ports[k]
                     port_key == PortKey(port)
                 IN  IF port = <<>> THEN Loop(k + 1, acc)
                     ELSE Loop(k + 1,
                            [lines |-> acc.lines
                                \o << <<"object-group", "ip", "port">> \o port_key,
                                      (IF port[1] # port[2]
                                       THEN <<"range", ToString(port[1]),
                                              ToString(port[2])>>
                                       ELSE <<"eq", ToString(port[1])>>),
                                      <<"exit">>, <<>> >>,
                             ports |-> acc.ports \cup {port_key}])
    IN  Loop(1, [lines |-> <<>>, ports |-> seen])

\* the blocks one term adds in ObjectGroup.__str__, given the keys seen so
\* far; the result is [lines, addresses, ports]
ObjectGroupPorts(ports, seen) ==
    LET RECURSIVE Loop(_, _)
        Loop(k, acc) ==
            IF k > Len(ports) THEN acc
            ELSE LET port == ports[k]
                     port_key == PortKey(port)
                 IN  IF port = <<>> \/ port_key \in acc.ports THEN Loop(k + 1, acc)
                     ELSE Loop(k + 1,
                            [lines |-> acc.lines
                                \o << <<"object-group", "ip", "port">> \o port_key,
                                      (IF port[1] # port[2]
                                       THEN <<"range", ToString(port[1]),
                                              ToString(port[2])>>
                                       ELSE <<"eq", ToString(port[1])>>),
                                      <<"exit">>, <<>> >>,
                             ports |-> acc.ports \cup {port_key}])
    IN  Loop(1, [lines |-> <<>>, ports |-> seen])

AddressBlock(addrs) ==
    << <<"object-group", "ip", "address", addrs[1].token>> >>
    \o [i \in 1..Len(addrs) |-> <<IpStr(addrs[i]), NetMask(addrs[i])>>]
    \o << <<"exit">>, <<>> >>

\* ObjectGroup.__str__ over self.terms
ObjectGroupStr(terms) ==
    LET RECURSIVE Loop(_, _)
        Loop(k, acc) ==
            IF k > Len(terms) THEN acc.lines
            ELSE LET term == terms[k]
                     saddrs == GetAddressOfVersion(term.source_address, "4")
                     sNew == saddrs # <<>> /\ saddrs[1].token \notin acc.addresses
                     addresses1 == IF sNew THEN acc.addresses \cup {saddrs[1].token}
                                   ELSE acc.addresses
                     daddrs == GetAddressOfVersion(term.destination_address, "4")
                     dNew == daddrs # <<>> /\ daddrs[1].token \notin addresses1
                     addresses2 == IF dNew THEN addresses1 \cup {daddrs[1].token}
                                   ELSE addresses1
                     p == ObjectGroupPorts(term.source_port \o term.destination_port,
                                           acc.ports)
                 IN  Loop(k + 1,
                        [lines |-> acc.lines
                            \o (IF sNew THEN AddressBlock(saddrs) ELSE <<>>)
                            \o (IF dNew THEN AddressBlock(daddrs) ELSE <<>>)
                            \o p.lines,
                         addresses |-> addresses2,
                         ports |-> p.ports])
    IN  Loop(1, [lines |-> << <<>>, <<>> >>, addresses |-> {}, ports |-> {}])

(***************************************************************************)
(* Cisco._TranslatePolicy.                                                 *)
(***************************************************************************)
\* datetime.date.today(), in weeks of the model's calendar
current_date == 2

\* the exp_info argument, in weeks
exp_info == 1

exp_info_date == current_date + exp_info

good_filters == {"extended", "standard", "object-group", "inet6", "mixed"}

\* the two ranges without their last numbers
StandardNumbersShort == (1..98) \cup (1300..1998)

\* range(1, 100) + range(1300, 2000)
StandardNumbers == (1..99) \cup (1300..1999)

\* aclgenerator.ACLGenerator.FixTermLength: a name longer than the limit is
\* cut, any other name is returned as it is
FixTermLength(name) ==
    IF name = "a-term-name-longer-than-the-limit" THEN "a-term-name-longer"
    ELSE name

\* aclgenerator.ACLGenerator.FixHighPorts returns the term, or None when
\* the term does not apply to the address family; TRUE when it is None
FixHighPortsIsNone(t, af) ==
    \/ af = "inet" /\ "icmpv6" \in Range(t.protocol)
    \/ af = "inet6" /\ "icmp" \in Range(t.protocol)

\* the test with the compilation date itself left out
ExpiredBeforeToday(t) == t.expiration # 0 /\ t.expiration < current_date

\* the test of lines 811-818 that drops a term
Expired(t) == t.expiration # 0 /\ t.expiration <= current_date

\* the numeric-name test that opens the loop over filter_list
NumericNameError(next_filter, filter_name) ==
    \/ next_filter = "extended" /\ isdigit(filter_name)
       /\ int(filter_name) \in StandardNumbers
    \/ next_filter = "standard" /\ isdigit(filter_name)
       /\ int(filter_name) \notin StandardNumbers

\* the renderer object built for term k of header h
NewTerm(kind, h, k, af, filter_name, t) ==
    [kind |-> kind, h |-> h, k |-> k, af |-> af, options |-> <<>>,
     filter_name |-> filter_name,
     logstring |-> IF kind = "TermStandard" THEN LogString(t) ELSE <<>>]

\* the messages of lines 811-817 for a term
ExpirationLogs(t) ==
    (IF t.expiration # 0 /\ t.expiration <= exp_info_date
     THEN << <<"INFO", t.name>> >> ELSE <<>>)
    \o (IF Expired(t) THEN << <<"WARNING", t.name>> >> ELSE <<>>)

\* the message of TermStandard.__init__ for a term that sets logging
StandardLogs(t) == IF t.logging THEN << <<"WARNING", t.name>> >> ELSE <<>>

\* the loop over terms of one next_filter; acc is [terms, new_terms, obj,
\* err, logs, ...], terms being the header's term list with the names as
\* left so far
TranslateTerms(h, next_filter, filter_name, acc0) ==
    LET af == IF next_filter = "inet6" THEN "inet6" ELSE "inet"
        RECURSIVE Loop(_, _)
        Loop(k, acc) ==
            IF k > Len(acc.terms) \/ acc.err # "none" THEN acc
            ELSE LET term == [acc.terms[k] EXCEPT
                                 !.name = FixTermLength(acc.terms[k].name)]
                     named == [acc EXCEPT !.terms[k] = term,
                                          !.logs = @ \o ExpirationLogs(term)]
                     kept == [acc EXCEPT !.terms[k] = term]
                 IN  IF FixHighPortsIsNone(term, af) THEN Loop(k + 1, kept)
                     ELSE IF Expired(term) THEN Loop(k + 1, named)
                     ELSE IF next_filter = "standard"
                        THEN (IF TermStandardInit(term) # "none"
                              THEN [named EXCEPT !.err = TermStandardInit(term)]
                              ELSE Loop(k + 1, [named EXCEPT
                                     !.logs = @ \o StandardLogs(term),
                                     !.new_terms =
                                     Append(@, NewTerm("TermStandard", h, k, 4,
                                                       filter_name, term))]))
                     ELSE IF next_filter = "extended"
                        THEN Loop(k + 1, [named EXCEPT !.new_terms =
                                 Append(@, NewTerm("Term", h, k, 4, <<>>, term))])
                     ELSE IF next_filter = "object-group"
                        THEN Loop(k + 1, [named EXCEPT
                                 !.obj = Append(@, k),
                                 !.new_terms = Append(@,
                                    NewTerm("ObjectGroupTerm", h, k, 4,
                                            filter_name, term))])
                     ELSE Loop(k + 1, [named EXCEPT !.new_terms =
                                 Append(@, NewTerm("Term", h, k, 6, <<>>, term))])
    IN  Loop(1, [acc0 EXCEPT !.new_terms = <<>>])

\* the body of the loop over pol.filters for header h: the result is
\* [terms, policies, err], policies being what is appended to
\* self.cisco_policies before the error, if any
TranslateFilter(filters, h) ==
    LET header == filters[h].header
        filter_options == header.filter_options
        filter_type == IF Len(filter_options) > 1 THEN filter_options[2]
                       ELSE "extended"
        filter_list == IF filter_type = "mixed" THEN <<"extended", "inet6">>
                       ELSE <<filter_type>>
        start == [terms |-> filters[h].terms, new_terms |-> <<>>, obj |-> <<>>,
                  err |-> "none", logs |-> <<>>, policies |-> <<>>,
                  filter_name |-> header.filter_name]
        RECURSIVE Loop(_, _)
        Loop(n, acc) ==
            IF n > Len(filter_list) \/ acc.err # "none" THEN acc
            ELSE LET next_filter == filter_list[n] IN
                 IF NumericNameError(next_filter, acc.filter_name)
                 THEN [acc EXCEPT !.err = "UnsupportedCiscoAccessListError"]
                 ELSE LET r == TranslateTerms(h, next_filter, acc.filter_name, acc)
                          name == IF filter_type = "mixed" /\ next_filter = "inet6"
                                  THEN Ipv6Prefix(acc.filter_name)
                                  ELSE acc.filter_name
                      IN  IF r.err # "none" THEN r
                          ELSE Loop(n + 1, [r EXCEPT
                                  !.filter_name = name,
                                  !.policies = Append(@,
                                     [h |-> h, filter_name |-> name,
                                      filter_list |-> <<next_filter>>,
                                      terms |-> r.new_terms])])
        done == Loop(1, start)
    IN  IF _PLATFORM \notin header.platforms
            THEN [start EXCEPT !.policies = <<>>]
        ELSE IF filter_type \notin good_filters
            THEN [start EXCEPT !.err = "UnsupportedCiscoAccessListError"]
        ELSE [done EXCEPT !.policies =
                 [i \in 1..Len(done.policies) |->
                     [h |-> done.policies[i].h,
                      filter_name |-> done.policies[i].filter_name,
                      filter_list |-> done.policies[i].filter_list,
                      terms |-> done.policies[i].terms,
                      obj_target |-> [filter_name |-> <<>>,
                                      terms |-> done.obj]]]]

\* one round of the loop over pol.filters; a raised exception ends the
\* construction of the generator, so nothing is ever rendered
_TranslatePolicy ==
    /\ pc = "translate"
    /\ hidx <= Len(pol)
    /\ \E r \in {TranslateFilter(pol, hidx)} :
        /\ pol' = [pol EXCEPT ![hidx].terms = r.terms]
        /\ cisco_policies' = cisco_policies \o r.policies
        /\ error' = r.err
        /\ logs' = logs \o r.logs
        /\ pc' = IF r.err # "none" THEN "failed"
                 ELSE IF hidx = Len(pol) THEN "translated" ELSE "translate"
        /\ hidx' = hidx + 1
    /\ UNCHANGED <<target, term_strs, renders>>

(***************************************************************************)
(* Cisco.__str__.                                                          *)
(***************************************************************************)
\* Cisco._AppendTargetByFilterType, for the filter types of good_filters
_AppendTargetByFilterType(filter_name, filter_type) ==
    IF filter_type = "standard"
    THEN (IF isdigit(filter_name)
          THEN << <<"no", "access-list">> \o filter_name >>
          ELSE << <<"no", "ip", "access-list", "standard">> \o filter_name,
                  <<"ip", "access-list", "standard">> \o filter_name >>)
    ELSE IF filter_type \in {"extended", "object-group"}
    THEN << <<"no", "ip", "access-list", "extended">> \o filter_name,
            <<"ip", "access-list", "extended">> \o filter_name >>
    ELSE << <<"no", "ipv6", "access-list">> \o filter_name,
            <<"ipv6", "access-list">> \o filter_name >>

\* aclgenerator.AddRepositoryTags(prefix, date=False, revision=False)
AddRepositoryTags(prefix) == << prefix \o <<"$Id:$">> >>

\* str(term) for a renderer object, on the term as the policy now holds it
RendererStr(obj, t) ==
    IF obj.kind = "TermStandard"
        THEN TermStandardStr(t, obj.filter_name, obj.logstring)
    ELSE IF obj.kind = "ObjectGroupTerm" THEN ObjectGroupTermStr(t)
    ELSE TermStr(t, obj.af, obj.options)

\* one round of the loop "now add the terms" of entry e: r is what str()
\* of its n-th renderer obj gave
AddTermStr(e, n, obj, acc, r) ==
    [acc EXCEPT !.filters[obj.h].terms[obj.k].comment = r.comment,
                !.cps[e].terms[n].options = r.options,
                !.err = r.err,
                !.strs[e] = Append(@, r.str),
                !.target = IF r.err = "none" /\ NonEmptyStr(r.str)
                           THEN @ \o r.str ELSE @]

RenderTerm(e, n, obj, acc) ==
    AddTermStr(e, n, obj, acc,
               RendererStr(obj, acc.filters[obj.h].terms[obj.k]))

\* the loop "now add the terms" for entry e; acc is [filters, cps, target,
\* strs, err]
RECURSIVE RenderTerms(_, _, _)
RenderTerms(e, n, acc) ==
    IF n > Len(acc.cps[e].terms) \/ acc.err # "none" THEN acc
    ELSE RenderTerms(e, n + 1, RenderTerm(e, n, acc.cps[e].terms[n], acc))

\* the lines of entry e that come before its terms
PolicyHead(filter_name, filter_type, comment) ==
    _AppendTargetByFilterType(filter_name, filter_type)
    \o (IF filter_type = "standard" /\ isdigit(filter_name)
        THEN AddRepositoryTags(<<"access-list">> \o filter_name \o <<"remark">>)
        ELSE AddRepositoryTags(<<"remark">>))
    \o [i \in 1..Len(comment) |-> <<"remark">> \o comment[i]]
    \o << <<"remark", "Filter", "type", "is", filter_type>> >>

\* obj_target.AddName and the lines before the terms
BeginPolicy(e, entry, acc) ==
    [acc EXCEPT
        !.cps[e].obj_target.filter_name =
            IF entry.filter_list[1] = "object-group" THEN entry.filter_name
            ELSE @,
        !.target = @ \o PolicyHead(entry.filter_name, entry.filter_list[1],
                                   acc.filters[entry.h].header.comment),
        !.strs = Append(@, <<>>)]

\* lines 907-912: the object groups go in front of everything collected so
\* far, and the block is closed
EndPolicy(entry, r) ==
    IF r.err # "none" THEN r
    ELSE [r EXCEPT !.target =
            (IF entry.obj_target.terms # <<>>
             THEN ObjectGroupStr([i \in 1..Len(entry.obj_target.terms) |->
                     r.filters[entry.h].terms[entry.obj_target.terms[i]]])
             ELSE <<>>)
            \o @ \o << <<>>, <<"exit">>, <<>> >>]

\* the body of the loop over self.cisco_policies for entry e
RenderPolicy(e, acc) ==
    EndPolicy(acc.cps[e], RenderTerms(e, 1, BeginPolicy(e, acc.cps[e], acc)))

\* Cisco.__str__: the result is [filters, cps, target, strs, err]
RECURSIVE RenderPolicies(_, _)
RenderPolicies(e, acc) ==
    IF e > Len(acc.cps) \/ acc.err # "none" THEN acc
    ELSE RenderPolicies(e + 1, RenderPolicy(e, acc))

CiscoStr(filters, cps) ==
    RenderPolicies(1, [filters |-> filters, cps |-> cps, target |-> <<>>,
                       strs |-> <<>>, err |-> "none"])

\* str(generator): an exception leaves no text
Str ==
    /\ pc = "translated"
    /\ renders < MaxRenders
    /\ \E r \in {CiscoStr(pol, cisco_policies)} :
        /\ pol' = r.filters
        /\ cisco_policies' = r.cps
        /\ term_strs' = r.strs
        /\ error' = r.err
        /\ target' = IF r.err = "none" THEN Join(r.target) ELSE <<>>
    /\ renders' = renders + 1
    /\ UNCHANGED <<pc, hidx, logs>>

Next == _TranslatePolicy \/ Str

(***************************************************************************)
(* The policies the specifications start from.                             *)
(***************************************************************************)
SeqsUpTo(S, n) == UNION { [1..m -> S] : m \in 1..n }

Header(platforms, name, type) ==
    [platforms |-> platforms,
     filter_options |-> IF type = "" THEN <<name>> ELSE <<name, type>>,
     filter_name |-> <<name>>,
     comment |-> << <<"a", "header", "comment">> >>]

Filter(header, terms) == [header |-> header, terms |-> terms]

FilterTypes == {"", "extended", "standard", "object-group", "inet6", "mixed",
                "bogus"}

FilterNames == {"acl"} \cup DOMAIN NumericNames

NetA == << Addr(4, 0, 2, "NETA") >>
HostsB == << Addr(4, 0, 1, "HOSTSB"), Addr(4, 1, 1, "HOSTSB") >>
Host6 == << Addr(6, 0, 1, "HOST6") >>
MixedC == << Addr(4, 0, 2, "MIXEDC"), Addr(6, 0, 2, "MIXEDC") >>
Host0 == << Addr(4, 0, 1, "HOST0") >>
Host1 == << Addr(4, 1, 1, "HOST1") >>

CiscoVerbatim == <<"cisco", "verbatim cisco text">>
JuniperVerbatim == <<"juniper", "verbatim juniper text">>

InitRest ==
    /\ pc = "translate"
    /\ hidx = 1
    /\ cisco_policies = <<>>
    /\ error = "none"
    /\ logs = <<>>
    /\ target = <<>>
    /\ term_strs = <<>>
    /\ renders = 0

\* ---- the filter compiler: names, types, expiration, forbidden fields ----
CompilerTerms ==
    { BaseTerm,
      [BaseTerm EXCEPT !.name = "t2", !.protocol = <<"tcp">>, !.expiration = 1],
      [BaseTerm EXCEPT !.name = "t3", !.protocol = <<"tcp">>, !.expiration = 4],
      [BaseTerm EXCEPT !.name = "t4", !.logging = TRUE, !.expiration = 3,
                       !.comment = << <<"a", "comment">> >>],
      [BaseTerm EXCEPT !.name = "t5", !.protocol = <<"icmpv6">>],
      [BaseTerm EXCEPT !.name = "a-term-name-longer-than-the-limit",
                       !.owner = "bob", !.expiration = 2,
                       !.source_address = NetA] }

StandardFields ==
    { BaseTerm,
      [BaseTerm EXCEPT !.protocol = <<"tcp">>],
      [BaseTerm EXCEPT !.protocol = <<"icmpv6">>],
      [BaseTerm EXCEPT !.icmp_type = <<"echo-request">>],
      [BaseTerm EXCEPT !.source_address = NetA],
      [BaseTerm EXCEPT !.source_address_exclude = Host0],
      [BaseTerm EXCEPT !.destination_address = HostsB],
      [BaseTerm EXCEPT !.destination_address_exclude = Host1],
      [BaseTerm EXCEPT !.option = <<"established">>],
      [BaseTerm EXCEPT !.source_port = << <<1, 2>> >>],
      [BaseTerm EXCEPT !.destination_port = << <<80, 80>> >>],
      [BaseTerm EXCEPT !.counter = "a-counter"],
      [BaseTerm EXCEPT !.logging = TRUE],
      [BaseTerm EXCEPT !.address = NetA \o Host6],
      [BaseTerm EXCEPT !.address = HostsB],
      [BaseTerm EXCEPT !.address = Host6],
      [BaseTerm EXCEPT !.verbatim = <<CiscoVerbatim>>],
      [BaseTerm EXCEPT !.platform = <<"juniper">>, !.logging = TRUE] }

StandardTerms ==
    { [t EXCEPT !.expiration = e] : t \in StandardFields, e \in {0, 1, 2, 3} }

OtherFilters ==
    { Filter(Header({"juniper"}, "acl2", "bogus"), <<BaseTerm>>),
      Filter(Header({"cisco"}, "acl2", "extended"),
             << [BaseTerm EXCEPT !.name = "u1", !.owner = "alice"] >>),
      Filter(Header({"cisco"}, "acl3", "object-group"),
             << [BaseTerm EXCEPT !.name = "u2", !.source_address = NetA,
                                 !.destination_port = << <<80, 81>> >>] >>) }

CompilerPolicies ==
    LET first == { Filter(Header({"cisco"}, n, ty), ts) :
                     n \in FilterNames, ty \in FilterTypes,
                     ts \in SeqsUpTo(CompilerTerms, MaxTerms) }
    IN  { <<f>> : f \in first }
        \cup { <<f, g>> : f \in { x \in first : x.header.filter_name = <<"acl">> },
                          g \in OtherFilters }

StandardPolicies ==
    { << Filter(Header({"cisco"}, n, "standard"), ts) >> :
        n \in {"acl", "50"},
        ts \in { <<t>> : t \in StandardTerms }
               \cup { <<BaseTerm, t>> : t \in StandardTerms } }

Init ==
    /\ pol \in CompilerPolicies \cup StandardPolicies
    /\ InitRest

Spec == Init /\ [][Next]_vars

\* ---- the extended / inet6 renderer: one term, one filter ----
RenderProtocols ==
    { [p |-> <<>>, i |-> <<>>],
      [p |-> <<"tcp">>, i |-> <<>>],
      [p |-> <<"udp", "tcp">>, i |-> <<>>],
      [p |-> <<"hop-by-hop">>, i |-> <<>>],
      [p |-> <<"icmp">>, i |-> <<"echo-request", "echo-reply">>],
      [p |-> <<"icmp", "tcp">>, i |-> <<"unreachable", "echo-reply">>],
      [p |-> <<"icmpv6">>, i |-> <<"echo-request", "unreachable">>] }

RenderAddresses ==
    { [sa |-> <<>>, sx |-> <<>>, da |-> <<>>, dx |-> <<>>],
      [sa |-> NetA, sx |-> <<>>, da |-> HostsB, dx |-> <<>>],
      [sa |-> HostsB, sx |-> <<>>, da |-> MixedC, dx |-> <<>>],
      [sa |-> MixedC \o HostsB, sx |-> Host0, da |-> <<>>, dx |-> <<>>],
      [sa |-> NetA, sx |-> NetA, da |-> <<>>, dx |-> <<>>],
      [sa |-> Host0, sx |-> Host1, da |-> Host6, dx |-> <<>>],
      [sa |-> Host6, sx |-> <<>>, da |-> NetA, dx |-> Host0],
      [sa |-> <<>>, sx |-> Host0, da |-> HostsB, dx |-> Host0 \o Host1],
      [sa |-> <<>>, sx |-> <<>>, da |-> MixedC, dx |-> Host6] }

RenderPorts ==
    { [sp |-> <<>>, dp |-> <<>>],
      [sp |-> <<>>, dp |-> << <<80, 80>> >>],
      [sp |-> << <<1, 2>> >>, dp |-> << <<5, 9>>, <<80, 81>> >>],
      [sp |-> << <<53, 53>>, <<7, 9>> >>, dp |-> <<>>] }

RenderOptions ==
    { [option |-> <<>>, logging |-> FALSE],
      [option |-> <<"established">>, logging |-> TRUE],
      [option |-> <<"tcp-established">>, logging |-> FALSE] }

RenderExtras ==
    { [verbatim |-> <<>>, owner |-> "", platform |-> <<>>,
       platform_exclude |-> <<>>],
      [verbatim |-> <<>>, owner |-> "bob", platform |-> <<>>,
       platform_exclude |-> <<>>],
      [verbatim |-> <<CiscoVerbatim>>, owner |-> "", platform |-> <<>>,
       platform_exclude |-> <<>>],
      [verbatim |-> <<JuniperVerbatim>>, owner |-> "bob", platform |-> <<>>,
       platform_exclude |-> <<>>],
      [verbatim |-> <<JuniperVerbatim, CiscoVerbatim>>, owner |-> "",
       platform |-> <<>>, platform_exclude |-> <<>>],
      [verbatim |-> <<CiscoVerbatim, JuniperVerbatim>>, owner |-> "",
       platform |-> <<"cisco", "juniper">>, platform_exclude |-> <<>>],
      [verbatim |-> <<>>, owner |-> "", platform |-> <<"juniper">>,
       platform_exclude |-> <<>>],
      [verbatim |-> <<>>, owner |-> "", platform |-> <<>>,
       platform_exclude |-> <<"cisco">>] }

MatchTerm(p, a, q, o, x) ==
    [BaseTerm EXCEPT
        !.protocol = p.p, !.icmp_type = p.i,
        !.source_address = a.sa, !.source_address_exclude = a.sx,
        !.destination_address = a.da, !.destination_address_exclude = a.dx,
        !.source_port = q.sp, !.destination_port = q.dp,
        !.option = o.option, !.logging = o.logging,
        !.verbatim = x.verbatim, !.owner = x.owner, !.platform = x.platform,
        !.platform_exclude = x.platform_exclude,
        !.comment = IF x.owner = "" THEN << <<"a", "comment">> >> ELSE <<>>]

\* every match field varied on terms that take the normal path, and every
\* verbatim and platform setting on fewer match fields
RenderTermsSet ==
    { MatchTerm(p, a, q, o, x) :
        p \in RenderProtocols, a \in RenderAddresses, q \in RenderPorts,
        o \in RenderOptions,
        x \in { y \in RenderExtras : y.verbatim = <<>> /\ y.platform = <<>>
                                     /\ y.platform_exclude = <<>> } }
    \cup
    { MatchTerm(p, a, q, o, x) :
        p \in { y \in RenderProtocols : y.i = <<>> },
        a \in { y \in RenderAddresses : y.sx = <<>> },
        q \in { y \in RenderPorts : y.sp = <<>> },
        o \in { y \in RenderOptions : y.logging },
        x \in RenderExtras }

InitTerm ==
    /\ pol \in { << Filter(Header({"cisco"}, "acl", ty), <<t>>) >> :
                   ty \in {"extended", "inet6", "mixed"}, t \in RenderTermsSet }
    /\ InitRest

SpecTerm == InitTerm /\ [][Next]_vars

\* ---- the port split: the port lists over 1..MaxPort ----
PortPairs == { pr \in (1..MaxPort) \X (1..MaxPort) : pr[1] <= pr[2] }

PortLists == SeqsUpTo(PortPairs, MaxPortList)

InitPorts ==
    /\ pol \in { << Filter(Header({"cisco"}, "acl", ty),
                           << [BaseTerm EXCEPT !.protocol = p,
                                               !.source_port = sp,
                                               !.destination_port = dp] >>) >> :
                   ty \in {"extended", "inet6"}, p \in { <<>>, <<"tcp">> },
                   sp \in PortLists, dp \in { <<>>, << <<2, 3>>, <<1, 1>> >> } }
    /\ InitRest

SpecPorts == InitPorts /\ [][Next]_vars

\* ---- the object groups: the terms of one object-group filter ----
GroupAddresses ==
    { [sa |-> <<>>, da |-> <<>>],
      [sa |-> NetA, da |-> <<>>],
      [sa |-> NetA, da |-> HostsB],
      [sa |-> HostsB, da |-> NetA],
      [sa |-> MixedC, da |-> MixedC],
      [sa |-> <<>>, da |-> NetA \o HostsB] }

GroupPorts ==
    { [sp |-> <<>>, dp |-> <<>>],
      [sp |-> << <<1, 1>> >>, dp |-> << <<1, 3>> >>],
      [sp |-> << <<1, 3>>, <<2, 2>> >>, dp |-> << <<1, 1>> >>],
      [sp |-> <<>>, dp |-> << <<2, 2>>, <<1, 2>> >>] }

GroupTerms ==
    { [BaseTerm EXCEPT !.source_address = a.sa, !.destination_address = a.da,
                       !.source_port = q.sp, !.destination_port = q.dp] :
        a \in GroupAddresses, q \in GroupPorts }
    \cup { [BaseTerm EXCEPT !.name = "t2", !.source_address = Host6,
                            !.destination_port = << <<7, 7>> >>],
           [BaseTerm EXCEPT !.name = "t3", !.platform = <<"juniper">>,
                            !.source_address = Host0,
                            !.source_port = << <<9, 9>> >>],
           [BaseTerm EXCEPT !.name = "t4", !.expiration = 1,
                            !.source_address = Host1,
                            !.source_port = << <<8, 8>> >>],
           [BaseTerm EXCEPT !.name = "t5", !.verbatim = <<CiscoVerbatim>>,
                            !.destination_address = Host1],
           [BaseTerm EXCEPT !.name = "t6", !.protocol = <<"tcp">>,
                            !.source_address = NetA] }

InitOG ==
    /\ pol \in { << Filter(Header({"cisco"}, "acl", "object-group"), ts) >> :
                   ts \in SeqsUpTo(GroupTerms, MaxTerms) }
    /\ InitRest

SpecOG == InitOG /\ [][Next]_vars

(***************************************************************************)
(* What the last call of Cisco.__str__ rendered: <<e, n>> is the n-th      *)
(* renderer of entry e of cisco_policies, TermOf its term as the policy    *)
(* holds it, StrOf what str() of the renderer returned.                    *)
(***************************************************************************)
RenderedTerms ==
    { en \in (1..Len(term_strs)) \X (1..(MaxTerms + 1)) :
        en[2] <= Len(term_strs[en[1]]) }

ObjOf(en) == cisco_policies[en[1]].terms[en[2]]

TermOf(en) == pol[ObjOf(en).h].terms[ObjOf(en).k]

StrOf(en) == term_strs[en[1]][en[2]]

IsRemark(line) == line # <<>> /\ line[1] = "remark"

\* the lines of a rendered term that are neither empty nor remarks
RuleLines(str) == SelectSeq(str, LAMBDA l : l # <<>> /\ ~IsRemark(l))

\* the six lists of a term under the address family of a Term renderer
SixLists(t, af) ==
    [saddr |-> TermAddress(t.source_address, t.source_address_exclude, af),
     daddr |-> TermAddress(t.destination_address,
                           t.destination_address_exclude, af),
     sport |-> TermPorts(t.source_port),
     dport |-> TermPorts(t.destination_port),
     proto |-> TermProtocol(t, af),
     icmp |-> TermIcmpTypes(t, af)]

\* suppression rules (a), (b) and (c) of the Term renderer
Suppressed(t, af) ==
    \/ PlatformSkips(t)
    \/ af = 4 /\ "icmpv6" \in Range(t.protocol)
    \/ SixLists(t, af).saddr = <<>>
    \/ SixLists(t, af).daddr = <<>>

ProductSize(l) ==
    Len(l.saddr) * Len(l.daddr) * Len(l.sport) * Len(l.dport) * Len(l.proto)
    * Len(l.icmp)

\* the k-th element of the product, source address the most significant
\* digit and ICMP type the least, rendered as its line
ProductLine(l, af, action, options, k) ==
    LET i5 == k - 1
        i4 == i5 \div Len(l.icmp)
        i3 == i4 \div Len(l.proto)
        i2 == i3 \div Len(l.dport)
        i1 == i2 \div Len(l.sport)
        i0 == i1 \div Len(l.daddr)
    IN  _TermletToStr(af, action, l.proto[(i4 % Len(l.proto)) + 1],
                      l.saddr[i0 + 1], l.sport[(i2 % Len(l.sport)) + 1],
                      l.daddr[(i1 % Len(l.daddr)) + 1],
                      l.dport[(i3 % Len(l.dport)) + 1],
                      l.icmp[(i5 % Len(l.icmp)) + 1], options)[1]

ProductLines(l, af, action, options) ==
    [k \in 1..ProductSize(l) |-> ProductLine(l, af, action, options, k)]

\* a Term renderer's term that is neither suppressed nor verbatim
PlainTerm(en) ==
    /\ ObjOf(en).kind = "Term"
    /\ TermOf(en).verbatim = <<>>
    /\ ~Suppressed(TermOf(en), ObjOf(en).af)

\* C1: the rule lines of every rendered extended / inet6 term that is not
\* suppressed and not verbatim are, in order, the lines of the Cartesian
\* product source addresses x destination addresses x source ports x
\* destination ports x protocols x ICMP types (an undeclared field being
\* one placeholder), source address outermost and ICMP type innermost; so
\* their number is the product of the six sizes.
C1_CartesianProduct ==
    \A en \in RenderedTerms :
        PlainTerm(en) =>
            /\ Len(RuleLines(StrOf(en)))
               = ProductSize(SixLists(TermOf(en), ObjOf(en).af))
            /\ RuleLines(StrOf(en))
               = ProductLines(SixLists(TermOf(en), ObjOf(en).af), ObjOf(en).af,
                              _ACTION_TABLE[TermOf(en).action[1]],
                              ObjOf(en).options)

\* a rendered term with two protocols, two ICMP types, two source addresses
\* and two destination ports, so sixteen lines or more
C1_Witness ==
    \E en \in RenderedTerms :
        /\ PlainTerm(en)
        /\ Len(SixLists(TermOf(en), ObjOf(en).af).proto) = 2
        /\ Len(SixLists(TermOf(en), ObjOf(en).af).icmp) = 2
        /\ Len(SixLists(TermOf(en), ObjOf(en).af).saddr) >= 2
        /\ Len(SixLists(TermOf(en), ObjOf(en).af).dport) >= 2
        /\ Len(RuleLines(StrOf(en))) >= 16

\* the hosts the addresses of one family in a list cover
HostsOf(addrs, af) ==
    UNION { Hosts(a) : a \in Range(GetAddressOfVersion(addrs, ToString(af))) }

\* a declared list of which nothing is left in the family once the
\* exclusions are taken away
ResolvesEmpty(declared, exclude, af) ==
    declared # <<>> /\ HostsOf(declared, af) \ HostsOf(exclude, af) = {}

SomeListResolvesEmpty(t, af) ==
    \/ ResolvesEmpty(t.source_address, t.source_address_exclude, af)
    \/ ResolvesEmpty(t.destination_address, t.destination_address_exclude, af)

Count(line, token) == Cardinality({ i \in 1..Len(line) : line[i] = token })

Undeclared(list) == IF list = <<>> THEN 1 ELSE 0

\* the source address of a rule line follows the action and the protocol
SourceToken(t, line) == line[Len(_ACTION_TABLE[t.action[1]]) + 2]

AnyOnlyWhenUndeclared(t, str) ==
    \A i \in 1..Len(RuleLines(str)) :
        /\ (SourceToken(t, RuleLines(str)[i]) = "any") <=> (t.source_address = <<>>)
        /\ Count(RuleLines(str)[i], "any")
           = Undeclared(t.source_address) + Undeclared(t.destination_address)

\* C2 (amended): a term without verbatim entries that declares a source or
\* destination address list of which nothing is left after the filter to
\* the pass's family and the subtraction of the exclusions renders to
\* nothing, and the rule lines of a term without verbatim entries carry
\* `any` for exactly the directions the term leaves undeclared.
C2_EmptyResolutionSuppresses ==
    \A en \in RenderedTerms :
        (ObjOf(en).kind = "Term" /\ TermOf(en).verbatim = <<>>) =>
            /\ SomeListResolvesEmpty(TermOf(en), ObjOf(en).af) => StrOf(en) = <<>>
            /\ AnyOnlyWhenUndeclared(TermOf(en), StrOf(en))

\* a rendered term whose declared source list is of the pass's family and
\* is emptied by its exclusions, and another whose lines carry `any`
C2_Witness ==
    \E en \in RenderedTerms :
        /\ ObjOf(en).kind = "Term"
        /\ TermOf(en).verbatim = <<>>
        /\ ~PlatformSkips(TermOf(en))
        /\ HostsOf(TermOf(en).source_address, ObjOf(en).af) # {}
        /\ ResolvesEmpty(TermOf(en).source_address,
                         TermOf(en).source_address_exclude, ObjOf(en).af)
        /\ TermOf(en).destination_address = <<>>
        /\ StrOf(en) = <<>>

\* C2 as claimed: every term with a declared list that resolves to empty
\* renders to nothing
C2_AsClaimed ==
    \A en \in RenderedTerms :
        (ObjOf(en).kind = "Term"
         /\ SomeListResolvesEmpty(TermOf(en), ObjOf(en).af)) => StrOf(en) = <<>>

\* the filter type a header requests
FilterType(h) ==
    IF Len(pol[h].header.filter_options) > 1
    THEN pol[h].header.filter_options[2] ELSE "extended"

\* the headers _TranslatePolicy has been through that target this platform
Compiled == { h \in 1..Len(pol) : h < hidx /\ _PLATFORM \in pol[h].header.platforms }

\* the fields a standard filter forbids
DeclaresForbidden(t) ==
    \/ t.protocol # <<>>
    \/ t.icmp_type # <<>>
    \/ t.source_address # <<>> \/ t.destination_address # <<>>
    \/ t.source_address_exclude # <<>> \/ t.destination_address_exclude # <<>>
    \/ t.option # <<>>
    \/ t.source_port # <<>> \/ t.destination_port # <<>>
    \/ t.counter # ""

\* some term of header h that is neither expired nor dropped by the
\* high-port rewrite declares a forbidden field
SomeLiveTermForbidden(h) ==
    \E k \in 1..Len(pol[h].terms) :
        /\ pol[h].terms[k].expiration = 0
           \/ pol[h].terms[k].expiration > current_date
        /\ ~FixHighPortsIsNone(pol[h].terms[k], "inet")
        /\ DeclaresForbidden(pol[h].terms[k])

\* the compilation ended with the Standard-ACL-term error at header h, and
\* nothing was or will be rendered
StandardErrorAt(h) ==
    /\ error = "StandardAclTermError"
    /\ pc = "failed"
    /\ hidx = h + 1
    /\ target = <<>>
    /\ renders = 0

\* the rule lines of a rendered standard term: the lines that are not
\* remarks, a remark following 'access-list <name>' under a numeric name
StandardRuleLines(en) ==
    SelectSeq(StrOf(en),
              LAMBDA l : l # <<>>
                  /\ ~IsRemark(IF isdigit(ObjOf(en).filter_name)
                               THEN SubSeq(l, 3, Len(l)) ELSE l))

LogSuffixIffLogging ==
    \A en \in RenderedTerms :
        (ObjOf(en).kind = "TermStandard" /\ TermOf(en).verbatim = <<>>) =>
            \A i \in 1..Len(StandardRuleLines(en)) :
                LET line == StandardRuleLines(en)[i]
                IN  (line[Len(line)] = "log") <=> TermOf(en).logging

\* C3 (amended): once the name of a `standard` filter has passed the
\* numeric-name check, compiling it raises the Standard-ACL-term error, and
\* nothing is rendered, exactly when some term of the filter that is
\* neither expired nor dropped by the high-port rewrite declares protocol,
\* ICMP type, source/destination address or address-exclude, option,
\* source/destination port or counter; a term that only sets the logging
\* flag does not raise and its rule lines end in `log`.
C3_StandardTermError ==
    /\ \A h \in Compiled :
        (FilterType(h) = "standard"
         /\ ~NumericNameError("standard", pol[h].header.filter_name)) =>
            /\ StandardErrorAt(h) <=> SomeLiveTermForbidden(h)
            /\ error = "StandardAclTermError" => StandardErrorAt(h)
    /\ LogSuffixIffLogging

\* a standard filter named 50 whose compilation raised on its second term
C3_Witness ==
    \E h \in Compiled :
        /\ FilterType(h) = "standard"
        /\ pol[h].header.filter_name = <<"50">>
        /\ StandardErrorAt(h)
        /\ Len(pol[h].terms) = 2
        /\ ~DeclaresForbidden(pol[h].terms[1])
        /\ pol[h].terms[2].counter # ""

\* C3 as claimed: every compiled standard filter raises the
\* Standard-ACL-term error exactly when a live term declares a forbidden
\* field
C3_AsClaimed ==
    \A h \in Compiled :
        FilterType(h) = "standard" =>
            (error = "StandardAclTermError" <=> SomeLiveTermForbidden(h))

\* a number of the ranges reserved for standard access lists
Reserved(n) == (1 <= n /\ n <= 99) \/ (1300 <= n /\ n <= 1999)

UnsupportedAt(h) ==
    /\ error = "UnsupportedCiscoAccessListError"
    /\ pc = "failed"
    /\ hidx = h + 1

\* C4: for a filter whose name is all digits, compilation raises the
\* Unsupported-filter-type error when the name is in [1,99] or [1300,1999]
\* and the filter is requested as extended (the extended pass of mixed
\* included) and when the name is outside those ranges and the filter is
\* requested as standard; a name inside the ranges requested as standard
\* compiles without this error.
C4_NumericNames ==
    \A h \in Compiled :
        isdigit(pol[h].header.filter_name) =>
            LET n == int(pol[h].header.filter_name) IN
            /\ (FilterType(h) \in {"extended", "mixed"} /\ Reserved(n))
                   => UnsupportedAt(h)
            /\ (FilterType(h) = "standard" /\ ~Reserved(n)) => UnsupportedAt(h)
            /\ (FilterType(h) = "standard" /\ Reserved(n))
                   => error # "UnsupportedCiscoAccessListError"

\* a mixed filter named 99 whose extended pass raised the error
C4_Witness ==
    \E h \in Compiled :
        /\ pol[h].header.filter_name = <<"99">>
        /\ FilterType(h) = "mixed"
        /\ UnsupportedAt(h)

\* the entries of cisco_policies that header h gave, in order
EntriesOf(h) == SelectSeq(cisco_policies, LAMBDA e : e.h = h)

\* header h went through _TranslatePolicy without an exception
CompiledCleanly(h) == h \in Compiled /\ (error = "none" \/ hidx > h + 1)

\* the terms of header h a pass over family af keeps, as their positions
KeptPositions(h, af) ==
    { k \in 1..Len(pol[h].terms) :
        /\ pol[h].terms[k].expiration = 0
           \/ pol[h].terms[k].expiration > current_date
        /\ ~FixHighPortsIsNone(pol[h].terms[k], af) }

\* the renderers of an entry are over the kept terms of header h, in the
\* order of the header's term list
OverTermsOf(entry, h, af) ==
    /\ { entry.terms[n].k : n \in 1..Len(entry.terms) } = KeptPositions(h, af)
    /\ \A n \in 1..Len(entry.terms) :
        /\ entry.terms[n].h = h
        /\ \A m \in 1..Len(entry.terms) :
            m < n => entry.terms[m].k < entry.terms[n].k

\* the filter types the rendered text announces, in order
AnnouncedTypes ==
    LET lines == SelectSeq(target,
                    LAMBDA l : Len(l) = 5
                               /\ SubSeq(l, 1, 4) = <<"remark", "Filter", "type", "is">>)
    IN  [i \in 1..Len(lines) |-> lines[i][5]]

\* C5: a compiled header of type mixed yields exactly two filters, extended
\* first and inet6 second, both over the header's term list; the extended
\* one carries the header's filter name and the inet6 one `ipv6-` followed
\* by that name; the rendered text announces the types in that order.
C5_MixedFanOut ==
    /\ \A h \in 1..Len(pol) :
        (CompiledCleanly(h) /\ FilterType(h) = "mixed") =>
            /\ Len(EntriesOf(h)) = 2
            /\ EntriesOf(h)[1].filter_list = <<"extended">>
            /\ EntriesOf(h)[2].filter_list = <<"inet6">>
            /\ EntriesOf(h)[1].filter_name = pol[h].header.filter_name
            /\ EntriesOf(h)[2].filter_name
               = <<"ipv6-">> \o EntriesOf(h)[1].filter_name
            /\ OverTermsOf(EntriesOf(h)[1], h, "inet")
            /\ OverTermsOf(EntriesOf(h)[2], h, "inet6")
    /\ (renders > 0 /\ error = "none") =>
            AnnouncedTypes
            = [e \in 1..Len(cisco_policies) |-> cisco_policies[e].filter_list[1]]

\* a rendered policy whose first header is mixed and keeps two terms
C5_Witness ==
    /\ renders > 0
    /\ error = "none"
    /\ FilterType(1) = "mixed"
    /\ Len(EntriesOf(1)) = 2
    /\ Len(EntriesOf(1)[2].terms) = 2
    /\ Len(AnnouncedTypes) >= 2

\* the terms of header h added to its aggregator: the terms the pass keeps
AddedTerms(h) ==
    SelectSeq(pol[h].terms,
              LAMBDA t : (t.expiration = 0 \/ t.expiration > current_date)
                         /\ ~FixHighPortsIsNone(t, "inet"))

\* the identity of an address list: the token of its first IPv4 address;
\* a list without IPv4 addresses names no group
IdentityKey(addrs) ==
    IF \E i \in 1..Len(addrs) : addrs[i].af = "4"
    THEN << <<"address",
              addrs[CHOOSE i \in 1..Len(addrs) :
                        /\ addrs[i].af = "4"
                        /\ \A j \in 1..(i - 1) : addrs[j].af # "4"].token>> >>
    ELSE <<>>

\* the keys a term refers to, in the order the aggregator looks at them
KeysOfTerm(t) ==
    IdentityKey(t.source_address) \o IdentityKey(t.destination_address)
    \o [i \in 1..Len(t.source_port \o t.destination_port) |->
          <<"port", ToString((t.source_port \o t.destination_port)[i][1]), "-",
            ToString((t.source_port \o t.destination_port)[i][2])>>]

RECURSIVE KeysOfTerms(_)
KeysOfTerms(terms) ==
    IF terms = <<>> THEN <<>>
    ELSE KeysOfTerm(Head(terms)) \o KeysOfTerms(Tail(terms))

\* a sequence with every element kept at its first occurrence only
RECURSIVE FirstOccurrences(_)
FirstOccurrences(s) ==
    IF s = <<>> THEN <<>>
    ELSE LET d == FirstOccurrences(SubSeq(s, 1, Len(s) - 1))
         IN  IF s[Len(s)] \in Range(d) THEN d ELSE Append(d, s[Len(s)])

IsGroupHead(line) ==
    Len(line) > 3 /\ SubSeq(line, 1, 2) = <<"object-group", "ip">>

\* the keys of the group blocks of the rendered text, in order
GroupHeads ==
    LET heads == SelectSeq(target, IsGroupHead)
    IN  [i \in 1..Len(heads) |-> SubSeq(heads[i], 3, Len(heads[i]))]

\* the line under a port group head is `eq p` for the key p-p and
\* `range low high` for any other key, and `exit` closes the block
PortBodies ==
    \A i \in 1..Len(target) :
        (IsGroupHead(target[i]) /\ target[i][3] = "port") =>
            /\ target[i + 1] = IF target[i][4] = target[i][6]
                               THEN <<"eq", target[i][4]>>
                               ELSE <<"range", target[i][4], target[i][6]>>
            /\ target[i + 2] = <<"exit">>

ObjectGroupRendered ==
    /\ renders > 0
    /\ error = "none"
    /\ Len(pol) = 1
    /\ FilterType(1) = "object-group"

OnOrBeforeToday(t) == t.expiration # 0 /\ t.expiration <= current_date

\* the term expires after the compilation date and inside the warning window
InWarningWindow(t) ==
    t.expiration > current_date /\ t.expiration <= current_date + exp_info

AllTerms == { <<h, k>> \in (1..Len(pol)) \X (1..(MaxTerms + 1)) :
                k <= Len(pol[h].terms) }

\* no renderer and no aggregator entry stands for an expired term
NoRendererForExpired ==
    \A e \in 1..Len(cisco_policies) :
        /\ \A n \in 1..Len(cisco_policies[e].terms) :
            ~OnOrBeforeToday(pol[cisco_policies[e].terms[n].h]
                                .terms[cisco_policies[e].terms[n].k])
        /\ \A i \in 1..Len(cisco_policies[e].obj_target.terms) :
            ~OnOrBeforeToday(pol[cisco_policies[e].h]
                                .terms[cisco_policies[e].obj_target.terms[i]])

\* a name only expired terms carry is on no line of the output
NoLineForExpired ==
    \A hk \in AllTerms :
        (\A gj \in AllTerms :
            pol[gj[1]].terms[gj[2]].name = pol[hk[1]].terms[hk[2]].name
                => OnOrBeforeToday(pol[gj[1]].terms[gj[2]]))
        => \A i \in 1..Len(target) :
                pol[hk[1]].terms[hk[2]].name \notin Range(target[i])

\* every group of the output is one of a term that is not expired
NoGroupForExpired ==
    \A i \in 1..Len(GroupHeads) :
        \E hk \in AllTerms :
            /\ ~OnOrBeforeToday(pol[hk[1]].terms[hk[2]])
            /\ GroupHeads[i] \in Range(KeysOfTerm(pol[hk[1]].terms[hk[2]]))

\* an exception comes from a term that is not expired, or from the filter
\* name or type
NoErrorFromExpired ==
    error \in {"StandardAclTermError", "UnboundLocalError"} =>
        \E hk \in AllTerms :
            /\ ~OnOrBeforeToday(pol[hk[1]].terms[hk[2]])
            /\ DeclaresForbidden(pol[hk[1]].terms[hk[2]])

\* a term inside the warning window that the pass keeps has a renderer in
\* every filter its header gave, and its lines are in the output
WindowTermsRendered ==
    \A h \in 1..Len(pol) : \A k \in 1..Len(pol[h].terms) :
        (CompiledCleanly(h) /\ InWarningWindow(pol[h].terms[k])) =>
            \A e \in 1..Len(cisco_policies) :
                (cisco_policies[e].h = h
                 /\ ~FixHighPortsIsNone(pol[h].terms[k],
                        IF cisco_policies[e].filter_list = <<"inet6">>
                        THEN "inet6" ELSE "inet")) =>
                    \E n \in 1..Len(cisco_policies[e].terms) :
                        /\ cisco_policies[e].terms[n].k = k
                        /\ (renders > 0 /\ error = "none"
                            /\ ~PlatformSkips(pol[h].terms[k])
                            /\ pol[h].terms[k].verbatim = <<>>
                            /\ (cisco_policies[e].terms[n].kind = "Term"
                                => ~Suppressed(pol[h].terms[k],
                                               cisco_policies[e].terms[n].af)))
                                => <<"remark", pol[h].terms[k].name>>
                                   \in { SubSeq(target[i], Len(target[i]) - 1,
                                                Len(target[i])) :
                                         i \in { j \in 1..Len(target) :
                                                   Len(target[j]) >= 2 } }

\* C7: under every filter type a term whose expiration date is on or
\* before the compilation date is dropped without an error: it gets no
\* renderer, no line of the output and no object group, whatever fields it
\* declares; a term that expires later but inside the warning window is
\* still rendered.
C7_ExpiredTermsDropped ==
    /\ NoRendererForExpired
    /\ NoLineForExpired
    /\ NoGroupForExpired
    /\ NoErrorFromExpired
    /\ WindowTermsRendered

\* a rendered standard filter whose first term is expired and declares a
\* protocol and whose second term is inside the warning window
C7_Witness ==
    /\ renders > 0
    /\ error = "none"
    /\ FilterType(1) = "standard"
    /\ Len(pol[1].terms) = 2
    /\ OnOrBeforeToday(pol[1].terms[1])
    /\ pol[1].terms[1].protocol # <<>>
    /\ InWarningWindow(pol[1].terms[2])
    /\ \E i \in 1..Len(target) :
        target[i] = <<"remark", pol[1].terms[2].name>>

\* the split as the list of what each pair becomes
RECURSIVE SplitPairs(_)
SplitPairs(ports) ==
    IF ports = <<>> THEN <<>>
    ELSE (IF Head(ports)[2] - Head(ports)[1] = 1
          THEN << <<Head(ports)[1], Head(ports)[1]>>,
                  <<Head(ports)[2], Head(ports)[2]>> >>
          ELSE << Head(ports) >>)
         \o SplitPairs(Tail(ports))

SplitAsStated(ports) ==
    /\ _FixConsecutivePorts(ports) = SplitPairs(ports)
    /\ _FixConsecutivePorts(_FixConsecutivePorts(ports))
       = _FixConsecutivePorts(ports)
    /\ \A i \in 1..Len(_FixConsecutivePorts(ports)) :
        _FixConsecutivePorts(ports)[i][2] - _FixConsecutivePorts(ports)[i][1] # 1

\* the clause a port pair is to be rendered as
ClauseOf(port, af, proto) ==
    IF port[1] = port[2]
    THEN <<"eq", _TermPortToProtocol(af, port[1], proto)>>
    ELSE <<"range", _TermPortToProtocol(af, port[1], proto),
           _TermPortToProtocol(af, port[2], proto)>>

\* the source port clause of a rule line whose addresses are both `any`
SourceClause(line) ==
    IF line[4] = "range" THEN SubSeq(line, 4, 6) ELSE SubSeq(line, 4, 5)

\* the source port clauses of the rule lines of a term with one protocol
\* and no addresses: every pair of the split list in turn, once per
\* destination port
ClausesAsSplit(en) ==
    LET t == TermOf(en)
        af == ObjOf(en).af
        lines == RuleLines(StrOf(en))
        sports == SplitPairs(t.source_port)
        ndst == IF t.destination_port = <<>> THEN 1
                ELSE Len(SplitPairs(t.destination_port))
    IN  [j \in 1..Len(lines) |-> SourceClause(lines[j])]
        = Flatten([i \in 1..Len(sports) |->
                     [j \in 1..ndst |->
                        ClauseOf(sports[i], af, TermProtocol(t, af)[1])]])

\* C8: the consecutive-port split turns every pair (lo, hi) with
\* hi - lo = 1 into (lo, lo), (hi, hi) in that order and leaves every other
\* pair as it is, in list order; applied to its own result it changes
\* nothing; so a declared pair such as (1, 2) is rendered as two `eq`
\* lines and never as one `range` clause.
C8_ConsecutivePortSplit ==
    /\ \A hk \in AllTerms :
        /\ SplitAsStated(pol[hk[1]].terms[hk[2]].source_port)
        /\ SplitAsStated(pol[hk[1]].terms[hk[2]].destination_port)
    /\ \A en \in RenderedTerms :
        (ObjOf(en).kind = "Term" /\ TermOf(en).source_port # <<>>
         /\ TermOf(en).source_address = <<>>
         /\ TermOf(en).destination_address = <<>>
         /\ Len(TermOf(en).protocol) <= 1
         /\ StrOf(en) # <<>>) => ClausesAsSplit(en)

\* a rendered term that declares the source ports (1, 2) and (1, 3): its
\* lines carry eq for 1 and for 2 and a range for 1 to 3
C8_Witness ==
    \E en \in RenderedTerms :
        /\ TermOf(en).source_port = << <<1, 2>>, <<1, 3>> >>
        /\ TermOf(en).protocol = <<"tcp">>
        /\ \E i \in 1..Len(StrOf(en)) :
            Len(StrOf(en)[i]) > 5 /\ SubSeq(StrOf(en)[i], 4, 5) = <<"eq", "2">>
        /\ \E i \in 1..Len(StrOf(en)) :
            Len(StrOf(en)[i]) > 5 /\ StrOf(en)[i][4] = "range"

\* the texts of the verbatim entries of a term tagged for this platform
CiscoTexts(verbatim) ==
    LET tagged == SelectSeq(verbatim, LAMBDA v : v[1] = _PLATFORM)
    IN  [i \in 1..Len(tagged) |-> << tagged[i][2] >>]

\* a Term renderer's term that passes the platform and the family test
PastSuppression(en) ==
    /\ ObjOf(en).kind = "Term"
    /\ ~PlatformSkips(TermOf(en))
    /\ ~(ObjOf(en).af = 4 /\ "icmpv6" \in Range(TermOf(en).protocol))

\* C9 as claimed: a term with a verbatim entry tagged cisco, wherever the
\* entry sits in the list, renders as its remark lines followed by the
\* cisco-tagged text and nothing else; a term whose verbatim entries are
\* all tagged for other platforms renders the rule lines of the normal
\* path.
C9_AsClaimed ==
    \A en \in RenderedTerms :
        PastSuppression(en) =>
            /\ CiscoTexts(TermOf(en).verbatim) # <<>> =>
                RuleLines(StrOf(en)) = CiscoTexts(TermOf(en).verbatim)
            /\ (TermOf(en).verbatim # <<>>
                /\ CiscoTexts(TermOf(en).verbatim) = <<>>
                /\ ~Suppressed(TermOf(en), ObjOf(en).af)) =>
                RuleLines(StrOf(en))
                = ProductLines(SixLists(TermOf(en), ObjOf(en).af),
                               ObjOf(en).af,
                               _ACTION_TABLE[TermOf(en).action[1]],
                               TermOptions(TermOf(en),
                                           TermProtocol(TermOf(en), ObjOf(en).af),
                                           <<>>))

\* C10 as claimed: no step of compiling or rendering changes a field of a
\* term of the input policy
C10_AsClaimed ==
    [][\A h \in 1..Len(pol) : pol'[h].terms = pol[h].terms]_vars

\* the position in the output of the line that opens entry e: the `no ...`
\* line of its filter name and type (0 when the output does not hold it)
OpeningLine(e) ==
    LET first == _AppendTargetByFilterType(cisco_policies[e].filter_name,
                                           cisco_policies[e].filter_list[1])[1]
    IN  IF \E i \in 1..Len(target) : target[i] = first
        THEN CHOOSE i \in 1..Len(target) : target[i] = first
        ELSE 0

\* the entry whose lines follow position i first
NextEntryAfter(i) ==
    CHOOSE e \in 1..Len(cisco_policies) :
        /\ OpeningLine(e) > i
        /\ \A d \in 1..Len(cisco_policies) :
            OpeningLine(d) > i => OpeningLine(e) <= OpeningLine(d)

\* C11 as claimed: in the assembled output every object-group block stands
\* directly before the lines of its own filter and after the lines of
\* every filter that precedes it in input order, and the filters' lines
\* follow each other in input order.
C11_AsClaimed ==
    (renders > 0 /\ error = "none") =>
        /\ \A e \in 1..Len(cisco_policies) : \A d \in 1..Len(cisco_policies) :
            d < e => (0 < OpeningLine(d) /\ OpeningLine(d) < OpeningLine(e))
        /\ \A i \in 1..Len(target) :
            IsGroupHead(target[i]) =>
                /\ \E e \in 1..Len(cisco_policies) : OpeningLine(e) > i
                /\ cisco_policies[NextEntryAfter(i)].filter_list
                   = <<"object-group">>
                /\ \A d \in 1..Len(cisco_policies) :
                    d < NextEntryAfter(i) => OpeningLine(d) < i

\* the protocol of a rule line follows the action
LineProtocol(t, line) == line[Len(_ACTION_TABLE[t.action[1]]) + 1]

DeclaresEstablished(t) ==
    "tcp-established" \in Range(t.option) \/ "established" \in Range(t.option)

\* C12 as claimed: a rule line of a rendered extended / inet6 term carries
\* `established` if and only if the term declares tcp-established or
\* established, its protocols include tcp and the protocol of the line is
\* not udp; it carries `log` if and only if the term sets the logging flag.
C12_AsClaimed ==
    \A en \in RenderedTerms :
        PlainTerm(en) =>
            \A i \in 1..Len(RuleLines(StrOf(en))) :
                LET line == RuleLines(StrOf(en))[i]
                IN  /\ ("established" \in Range(line))
                       <=> (/\ DeclaresEstablished(TermOf(en))
                            /\ "tcp" \in Range(TermOf(en).protocol)
                            /\ LineProtocol(TermOf(en), line) # "udp")
                    /\ ("log" \in Range(line)) <=> TermOf(en).logging

\* the group keys the rule lines of the rendered terms refer to: the word
\* after `addrgroup`, the three tokens after `portgroup`
ReferencedGroups ==
    UNION { UNION { { IF line[i] = "addrgroup"
                      THEN <<"address", line[i + 1]>>
                      ELSE <<"port">> \o SubSeq(line, i + 1, i + 3) :
                        i \in { j \in 1..Len(line) :
                                  line[j] \in {"addrgroup", "portgroup"} } } :
                    line \in Range(RuleLines(StrOf(en))) } :
            en \in RenderedTerms }

\* C13 (as stated): in a rendered object-group filter every `addrgroup
\* <token>` and every `portgroup <low>-<high>` of a rule line names a group
\* that the filter's object-group block declares, the `any`-equivalent
\* group of a term without a declared address included.
C13_AsClaimed ==
    ObjectGroupRendered => ReferencedGroups \subseteq Range(GroupHeads)

\* an object-group term that is neither platform-suppressed nor verbatim
PlainGroupTerm(en) ==
    /\ ObjOf(en).kind = "ObjectGroupTerm"
    /\ ~PlatformSkips(TermOf(en))
    /\ TermOf(en).verbatim = <<>>

\* protocol, source port clause and destination port clause of a rule line
\* of an object-group term: the word before the first `addrgroup`, what
\* stands between the two address references, and what follows the second
GroupLineCombination(line) ==
    LET at == { j \in 1..Len(line) : line[j] = "addrgroup" }
        a1 == CHOOSE j \in at : \A k \in at : j <= k
        a2 == CHOOSE j \in at : \A k \in at : j >= k
    IN  <<line[a1 - 1], SubSeq(line, a1 + 2, a2 - 1),
          SubSeq(line, a2 + 2, Len(line))>>

\* the port clauses of a declared port list, one empty placeholder for an
\* undeclared one
GroupPortClauses(ports) ==
    IF ports = <<>> THEN { <<>> }
    ELSE { <<"portgroup">> \o PortKey(ports[i]) : i \in 1..Len(ports) }

\* the combinations of protocol, source port and destination port of a term
GroupCombinations(t) ==
    (IF t.protocol = <<>> THEN {"ip"} ELSE Range(t.protocol))
    \X GroupPortClauses(t.source_port) \X GroupPortClauses(t.destination_port)

\* C14 (as stated): rendering an object-group filter never fails, and every
\* term of it that is neither platform-suppressed nor verbatim, with or
\* without a declared protocol list, has a rule line for every combination
\* of protocol, source port and destination port and for no other.
C14_AsClaimed ==
    (renders > 0 /\ Len(pol) = 1 /\ FilterType(1) = "object-group") =>
        /\ error = "none"
        /\ \A en \in RenderedTerms :
            PlainGroupTerm(en) =>
                { GroupLineCombination(RuleLines(StrOf(en))[i]) :
                    i \in 1..Len(RuleLines(StrOf(en))) }
                = GroupCombinations(TermOf(en))

RemarkLines(str) == SelectSeq(str, IsRemark)

\* two renderers of the last rendering made from the same policy term, as
\* the extended and the inet6 renderer of a term of a `mixed` filter are
SameTerm(en1, en2) ==
    /\ en1 # en2
    /\ ObjOf(en1).h = ObjOf(en2).h
    /\ ObjOf(en1).k = ObjOf(en2).k

\* the remark lines of a term are the same in every block that renders it
RemarksAgree ==
    \A en1, en2 \in RenderedTerms :
        (SameTerm(en1, en2) /\ NonEmptyStr(StrOf(en1))
                            /\ NonEmptyStr(StrOf(en2))) =>
            RemarkLines(StrOf(en1)) = RemarkLines(StrOf(en2))

\* C15 (as stated): rendering is repeatable. A rendering of a compiled policy
\* that follows an earlier one returns the same text, term by term, and in
\* every rendering the remark lines of a term are the same in each block
\* that renders it (extended and inet6 of a `mixed` filter).
C15_AsClaimed ==
    [][/\ renders > 0 => (target' = target /\ term_strs' = term_strs)
       /\ renders' > 0 => RemarksAgree']_vars

\* a standard-ACL term that is neither platform-suppressed nor verbatim
PlainStandardTerm(en) ==
    /\ ObjOf(en).kind = "TermStandard"
    /\ ~PlatformSkips(TermOf(en))
    /\ TermOf(en).verbatim = <<>>

\* C16 (as stated): a rendered standard-ACL term has one rule line per
\* declared IPv4 address, in order, and none for an IPv6 address; the
\* match-all token `any` appears only when the term declares no address at
\* all, where it makes the single rule line.
C16_AsClaimed ==
    \A en \in RenderedTerms :
        PlainStandardTerm(en) =>
            LET t == TermOf(en)
                v4 == GetAddressOfVersion(t.address, "4")
                lines == StandardRuleLines(en)
            IN  /\ Len(lines) = (IF t.address = <<>> THEN 1 ELSE Len(v4))
                /\ \A i \in 1..Len(lines) :
                    /\ \A a \in Range(GetAddressOfVersion(t.address, "6")) :
                        IpStr(a) \notin Range(lines[i])
                    /\ ("any" \in Range(lines[i])) <=> (t.address = <<>>)
                    /\ t.address # <<>> => IpStr(v4[i]) \in Range(lines[i])
====
